---- MODULE Spec2Model ----
(***************************************************************************)
(* Model of the CSS selector builder of src/05-objects-tasks.js.           *)
(*                                                                         *)
(* JavaScript strings are sequences of one-character strings, so that      *)
(* concatenation (+, template literals) and String.prototype.indexOf are   *)
(* computed as the engine computes them.  Objects live in a heap (a        *)
(* sequence of records, the index being the object's identity); heap[1]    *)
(* is the module-level constant cssSelectorBuilder.  Every method is an    *)
(* operator from a heap and its arguments to a call result                 *)
(* [heap, ret, err]: the heap after the call, the object returned and the  *)
(* Error thrown ("none" when the call returns).                            *)
(***************************************************************************)
EXTENDS Integers, Sequences, FiniteSets, TLC

VARIABLES heap, lineage, parent, last, rects, rcall

vars == <<heap, lineage, parent, last, rects, rcall>>

(* ---------------------------- bounds ----------------------------------- *)

\* Largest number of CssSelectorBuilder objects alive (the facade included).
MaxObjs == 4

\* Largest number of rectangle objects alive, and the largest absolute value
\* of a width or height passed to Rectangle.
MaxRects == 2
MaxSide == 2

\* The numbers callers pass as width and height.
Sides == (-MaxSide)..MaxSide

\* The strings callers pass as part values: a value that reads like the name
\* of a part category.
Values == { <<"i", "d">> }

\* The strings callers pass as the combinator of combine.
Combinators == { <<"+">> }

(* ----------------------- JavaScript primitives ------------------------- *)

\* A JavaScript value of one of the three types the builder's fields and
\* parameters take: string, number, undefined.
Str(s) == [t |-> "string", s |-> s, n |-> 0]
Num(n) == [t |-> "number", s |-> <<>>, n |-> n]
Undefined == [t |-> "undefined", s |-> <<>>, n |-> 0]

\* The text of the undefined value when it is concatenated to a string.
UndefinedText == <<"u", "n", "d", "e", "f", "i", "n", "e", "d">>

Digits == <<"0", "1", "2", "3", "4", "5", "6", "7", "8", "9">>

\* ToString of a value on the right of string + value (numbers 0..9 only:
\* the builder concatenates no number).
ToStringJS(v) ==
  CASE v.t = "string" -> v.s
    [] v.t = "undefined" -> UndefinedText
    [] v.t = "number" -> <<Digits[v.n + 1]>>

\* string + value
Plus(s, v) == s \o ToStringJS(v)

\* ToNumber of a value on the left of value < number: the empty string is 0,
\* a string that is no numeric literal (every non-empty string made of
\* letters) is NaN, undefined is NaN.
ToNumber(v) ==
  CASE v.t = "number" -> [nan |-> FALSE, n |-> v.n]
    [] v.t = "string" -> IF v.s = <<>> THEN [nan |-> FALSE, n |-> 0]
                                       ELSE [nan |-> TRUE, n |-> 0]
    [] v.t = "undefined" -> [nan |-> TRUE, n |-> 0]

\* value < number: false when either side is NaN.
LessThan(v, k) == LET x == ToNumber(v) IN ~x.nan /\ x.n < k

\* String.prototype.indexOf: the first index (from 0) at which sub occurs in
\* s, or -1.
indexOf(s, sub) ==
  LET hits == { k \in 0..(Len(s) - Len(sub)) :
                  SubSeq(s, k + 1, k + Len(sub)) = sub }
  IN IF hits = {} THEN -1
     ELSE CHOOSE k \in hits : \A j \in hits : k <= j

(* ------------------------------ Rectangle ------------------------------ *)

\* Mutant of Rectangle: the fields swapped.
Rectangle_Swapped(width, height) ==
  [width |-> height, height |-> width,
   scope |-> [width |-> width, height |-> height]]

\* Rectangle(width, height): the object literal { width, height, getArea },
\* scope being the parameters the getArea closure captures.
Rectangle(width, height) ==
  [width |-> width, height |-> height,
   scope |-> [width |-> width, height |-> height]]

\* Mutant of getArea: the sum of the sides.
getArea_Sum(r) == r.scope.width + r.scope.height

\* getArea(): width * height of the enclosing call's parameters.
getArea(r) == r.scope.width * r.scope.height

(* ----------------------- class CssSelectorBuilder ---------------------- *)

errorMultipleTimes == "errorMultipleTimes"
errorOrder == "errorOrder"

\* constructor(result = '', position = 0, combinators = ''): a default
\* applies when the argument is undefined.
CssSelectorBuilder(result, position, combinators) ==
  [ result      |-> IF result.t = "undefined" THEN <<>> ELSE result.s,
    position    |-> IF position.t = "undefined" THEN Num(0) ELSE position,
    combinators |-> IF combinators.t = "undefined" THEN <<>> ELSE combinators.s ]

\* const cssSelectorBuilder = new CssSelectorBuilder();
cssSelectorBuilder == CssSelectorBuilder(Undefined, Undefined, Undefined)

\* The result of a call that returns object ret, and of one that throws.
Return(h, ret) == [heap |-> h, ret |-> ret, err |-> "none"]
Throw(h, e) == [heap |-> h, ret |-> 0, err |-> e]

\* Mutant of checkErrors: the record of the parts used is shared by all
\* objects (a class-level field) instead of belonging to the receiver.
checkErrors_Shared(h, this, value) ==
  \E o \in 1..Len(h) : indexOf(h[o].combinators, value) >= 0

\* Mutant of checkErrors: searches the selector text instead of the record of
\* the parts used.
checkErrors_OnResult(h, this, value) == indexOf(h[this].result, value) >= 0

\* checkErrors(value): TRUE when it throws errorMultipleTimes.
checkErrors(h, this, value) == indexOf(h[this].combinators, value) >= 0

\* Mutant of cssSelectorNew: records the part's text, which holds the caller's
\* value, instead of the part's name.
cssSelectorNew_RecordsSelector(h, this, selector, position, structure) ==
  Return(Append(h, CssSelectorBuilder(Str(h[this].result \o selector),
                                      position,
                                      Str(h[this].combinators \o selector))),
         Len(h) + 1)

\* Mutant of cssSelectorNew: puts the new part before the receiver's text.
cssSelectorNew_Prepend(h, this, selector, position, structure) ==
  Return(Append(h, CssSelectorBuilder(Str(selector \o h[this].result),
                                      position,
                                      Str(Plus(h[this].combinators, structure)))),
         Len(h) + 1)

\* Mutant of cssSelectorNew: updates the receiver and returns it.
cssSelectorNew_InPlace(h, this, selector, position, structure) ==
  Return([h EXCEPT ![this] =
            CssSelectorBuilder(Str(h[this].result \o selector),
                               position,
                               Str(Plus(h[this].combinators, structure)))],
         this)

\* cssSelectorNew(selector, position, structure)
cssSelectorNew(h, this, selector, position, structure) ==
  Return(Append(h, CssSelectorBuilder(Str(h[this].result \o selector),
                                      position,
                                      Str(Plus(h[this].combinators, structure)))),
         Len(h) + 1)

\* stringify()
stringify(h, this) == h[this].result

\* The names the methods pass to checkErrors and to cssSelectorNew.
NameElement == <<"e", "l", "e", "m", "e", "n", "t">>
NameId == <<"i", "d">>
NameClass == <<"c", "l", "a", "s", "s">>
NameAttribute == <<"a", "t", "t", "r", "i", "b", "u", "t", "e">>
NamePseudoClass == <<"p", "s", "e", "u", "d", "o", "C", "l", "a", "s", "s">>
NamePseudoElement ==
  <<"p", "s", "e", "u", "d", "o", "E", "l", "e", "m", "e", "n", "t">>

\* Mutant of element: checks the order before the repetition.
element_OrderFirst(h, this, value) ==
  IF ~LessThan(h[this].position, 2) THEN Throw(h, errorOrder)
  ELSE IF checkErrors(h, this, NameElement) THEN Throw(h, errorMultipleTimes)
       ELSE cssSelectorNew(h, this, value, Num(1), Str(NameElement))

\* element(value)
element(h, this, value) ==
  IF checkErrors(h, this, NameElement) THEN Throw(h, errorMultipleTimes)
  ELSE IF LessThan(h[this].position, 2)
       THEN cssSelectorNew(h, this, value, Num(1), Str(NameElement))
       ELSE Throw(h, errorOrder)

\* Mutant of id: records the part in the receiver before checking the order.
id_RecordsFirst(h, this, value) ==
  IF checkErrors(h, this, NameId) THEN Throw(h, errorMultipleTimes)
  ELSE IF LessThan(h[this].position, 3)
       THEN cssSelectorNew(h, this, <<"#">> \o value, Num(2), Str(NameId))
       ELSE Throw([h EXCEPT ![this].combinators = @ \o NameId], errorOrder)

\* id(value)
id(h, this, value) ==
  IF checkErrors(h, this, NameId) THEN Throw(h, errorMultipleTimes)
  ELSE IF LessThan(h[this].position, 3)
       THEN cssSelectorNew(h, this, <<"#">> \o value, Num(2), Str(NameId))
       ELSE Throw(h, errorOrder)

\* Mutant of class: refuses a class part after a class part.
class_StrictOrder(h, this, value) ==
  IF checkErrors(h, this, NameClass) THEN Throw(h, errorMultipleTimes)
  ELSE IF LessThan(h[this].position, 3)
       THEN cssSelectorNew(h, this, <<".">> \o value, Num(3), Undefined)
       ELSE Throw(h, errorOrder)

\* class(value)
class(h, this, value) ==
  IF checkErrors(h, this, NameClass) THEN Throw(h, errorMultipleTimes)
  ELSE IF LessThan(h[this].position, 4)
       THEN cssSelectorNew(h, this, <<".">> \o value, Num(3), Undefined)
       ELSE Throw(h, errorOrder)

\* attr(value)
attr(h, this, value) ==
  IF checkErrors(h, this, NameAttribute) THEN Throw(h, errorMultipleTimes)
  ELSE IF LessThan(h[this].position, 5)
       THEN cssSelectorNew(h, this, <<"[">> \o value \o <<"]">>, Num(4), Undefined)
       ELSE Throw(h, errorOrder)

\* pseudoClass(value)
pseudoClass(h, this, value) ==
  IF checkErrors(h, this, NamePseudoClass) THEN Throw(h, errorMultipleTimes)
  ELSE IF LessThan(h[this].position, 6)
       THEN cssSelectorNew(h, this, <<":">> \o value, Num(5), Undefined)
       ELSE Throw(h, errorOrder)

\* Mutant of pseudoElement: does not record that the part was used.
pseudoElement_NoName(h, this, value) ==
  IF checkErrors(h, this, NamePseudoElement) THEN Throw(h, errorMultipleTimes)
  ELSE IF LessThan(h[this].position, 7)
       THEN cssSelectorNew(h, this, <<":", ":">> \o value, Num(6), Undefined)
       ELSE Throw(h, errorOrder)

\* pseudoElement(value)
pseudoElement(h, this, value) ==
  IF checkErrors(h, this, NamePseudoElement) THEN Throw(h, errorMultipleTimes)
  ELSE IF LessThan(h[this].position, 7)
       THEN cssSelectorNew(h, this, <<":", ":">> \o value, Num(6),
                           Str(NamePseudoElement))
       ELSE Throw(h, errorOrder)

\* Mutant of combine: writes the combined text into the receiver.
combine_InPlace(h, this, selector1, combinator, selector2) ==
  Return([h EXCEPT ![this].result =
            @ \o stringify(h, selector1) \o <<" ">> \o combinator \o <<" ">>
              \o stringify(h, selector2)],
         this)

\* combine(selector1, combinator, selector2): the second argument of
\* cssSelectorNew is this.combinators, the third is missing.
combine(h, this, selector1, combinator, selector2) ==
  cssSelectorNew(h, this,
                 stringify(h, selector1) \o <<" ">> \o combinator \o <<" ">>
                   \o stringify(h, selector2),
                 Str(h[this].combinators), Undefined)

\* The call this.op(value) of an append method.
Call(op, h, this, value) ==
  CASE op = "element" -> element(h, this, value)
    [] op = "id" -> id(h, this, value)
    [] op = "class" -> class(h, this, value)
    [] op = "attr" -> attr(h, this, value)
    [] op = "pseudoClass" -> pseudoClass(h, this, value)
    [] op = "pseudoElement" -> pseudoElement(h, this, value)

(* ------------------------------ the program ---------------------------- *)

\* History of the calls: lineage[o] is the sequence of the calls, each made on
\* the object the one before returned, that led from the facade to object o;
\* parent[o] is the receiver of the call that returned o (0 for the facade);
\* last is the latest call, with the heap it was made in (out: the string a
\* stringify call returned).
NoCall ==
  [op |-> "none", this |-> 0, value |-> <<>>, selector1 |-> 0, selector2 |-> 0,
   pre |-> <<>>, err |-> "none", ret |-> 0, out |-> <<>>]

\* rects holds the objects Rectangle returned; rcall is the latest call of
\* Rectangle or getArea: its arguments, the rectangle returned or called,
\* and the number getArea returned.
NoRectCall == [op |-> "none", width |-> 0, height |-> 0, rect |-> 0, out |-> 0]

Init ==
  /\ heap = <<cssSelectorBuilder>>
  /\ lineage = << <<>> >>
  /\ parent = <<0>>
  /\ last = NoCall
  /\ rects = <<>>
  /\ rcall = NoRectCall

\* The call op(value) (combine: op(selector1, value, selector2)) on object
\* this ended as r says.
Called(op, this, value, selector1, selector2, r) ==
  /\ heap' = r.heap
  /\ last' = [op |-> op, this |-> this, value |-> value,
              selector1 |-> selector1, selector2 |-> selector2,
              pre |-> heap, err |-> r.err, ret |-> r.ret, out |-> <<>>]
  /\ IF r.err = "none"
     THEN /\ lineage' = [o \in 1..Len(r.heap) |->
                           IF o = r.ret
                           THEN Append(lineage[this], [op |-> op, value |-> value])
                           ELSE lineage[o]]
          /\ parent' = [o \in 1..Len(r.heap) |->
                          IF o = r.ret THEN this ELSE parent[o]]
     ELSE UNCHANGED <<lineage, parent>>
  /\ UNCHANGED <<rects, rcall>>

Element ==
  \E this \in 1..Len(heap), value \in Values :
    /\ Len(heap) < MaxObjs
    /\ Called("element", this, value, 0, 0, element(heap, this, value))

Id ==
  \E this \in 1..Len(heap), value \in Values :
    /\ Len(heap) < MaxObjs
    /\ Called("id", this, value, 0, 0, id(heap, this, value))

Class ==
  \E this \in 1..Len(heap), value \in Values :
    /\ Len(heap) < MaxObjs
    /\ Called("class", this, value, 0, 0, class(heap, this, value))

Attr ==
  \E this \in 1..Len(heap), value \in Values :
    /\ Len(heap) < MaxObjs
    /\ Called("attr", this, value, 0, 0, attr(heap, this, value))

PseudoClass ==
  \E this \in 1..Len(heap), value \in Values :
    /\ Len(heap) < MaxObjs
    /\ Called("pseudoClass", this, value, 0, 0, pseudoClass(heap, this, value))

PseudoElement ==
  \E this \in 1..Len(heap), value \in Values :
    /\ Len(heap) < MaxObjs
    /\ Called("pseudoElement", this, value, 0, 0,
              pseudoElement(heap, this, value))

Combine ==
  \E this \in 1..Len(heap), selector1 \in 1..Len(heap),
     selector2 \in 1..Len(heap), combinator \in Combinators :
    /\ Len(heap) < MaxObjs
    /\ Called("combine", this, combinator, selector1, selector2,
              combine(heap, this, selector1, combinator, selector2))

Stringify ==
  \E this \in 1..Len(heap) :
    /\ Len(heap) < MaxObjs
    /\ last' = [op |-> "stringify", this |-> this, value |-> <<>>,
                selector1 |-> 0, selector2 |-> 0,
                pre |-> heap, err |-> "none", ret |-> 0,
                out |-> stringify(heap, this)]
    /\ UNCHANGED <<heap, lineage, parent, rects, rcall>>

Next ==
  \/ Element
  \/ Id
  \/ Class
  \/ Attr
  \/ PseudoClass
  \/ PseudoElement
  \/ Combine
  \/ Stringify

Spec == Init /\ [][Next]_vars

\* const r = new Rectangle(width, height)
NewRectangle ==
  \E width \in Sides, height \in Sides :
    /\ Len(rects) < MaxRects
    /\ rects' = Append(rects, Rectangle(width, height))
    /\ rcall' = [op |-> "Rectangle", width |-> width, height |-> height,
                 rect |-> Len(rects) + 1, out |-> 0]
    /\ UNCHANGED <<heap, lineage, parent, last>>

\* r.getArea()
GetArea ==
  \E r \in 1..Len(rects) :
    /\ rcall' = [op |-> "getArea", width |-> 0, height |-> 0,
                 rect |-> r, out |-> getArea(rects[r])]
    /\ UNCHANGED <<heap, lineage, parent, last, rects>>

NextRect ==
  \/ NewRectangle
  \/ GetArea

\* The program that only makes and measures rectangles.
SpecRect == Init /\ [][NextRect]_vars

(* ------------------- the specification's vocabulary -------------------- *)

\* The six append operations and the categories that may occur once.
AppendOps == {"element", "id", "class", "attr", "pseudoClass", "pseudoElement"}
Singletons == {"element", "id", "pseudoElement"}

\* The rank of a category: its place in the order element, id, class,
\* attribute, pseudo-class, pseudo-element.
Rank(op) ==
  CASE op = "element" -> 1
    [] op = "id" -> 2
    [] op = "class" -> 3
    [] op = "attr" -> 4
    [] op = "pseudoClass" -> 5
    [] op = "pseudoElement" -> 6

\* The formatted text of a part.
PartText(op, v) ==
  CASE op = "element" -> v
    [] op = "id" -> <<"#">> \o v
    [] op = "class" -> <<".">> \o v
    [] op = "attr" -> <<"[">> \o v \o <<"]">>
    [] op = "pseudoClass" -> <<":">> \o v
    [] op = "pseudoElement" -> <<":", ":">> \o v

\* The name an append operation hands to checkErrors.
NameOf(op) ==
  CASE op = "element" -> NameElement
    [] op = "id" -> NameId
    [] op = "class" -> NameClass
    [] op = "attr" -> NameAttribute
    [] op = "pseudoClass" -> NamePseudoClass
    [] op = "pseudoElement" -> NamePseudoElement

\* A lineage made of append operations only.
AppendsOnly(lin) == \A k \in 1..Len(lin) : lin[k].op \in AppendOps

\* The singleton categories a lineage has used, and how often it used op.
UsedSingletons(lin) == { lin[k].op : k \in 1..Len(lin) } \cap Singletons
Occurrences(lin, op) == Cardinality({ k \in 1..Len(lin) : lin[k].op = op })

\* The rank a lineage of appends has reached: that of its latest part.
LineageRank(lin) == IF lin = <<>> THEN 0 ELSE Rank(lin[Len(lin)].op)

\* The texts of a lineage's parts, concatenated in call order.
RECURSIVE ConcatParts(_)
ConcatParts(lin) ==
  IF lin = <<>> THEN <<>>
  ELSE ConcatParts(SubSeq(lin, 1, Len(lin) - 1))
         \o PartText(lin[Len(lin)].op, lin[Len(lin)].value)

\* A chain of appends built alone: the calls of lin made one after the other,
\* each on the object the one before returned, in a program that has made no
\* other call since it loaded the module. A call that throws ends the chain.
RECURSIVE BuiltAlone(_)
BuiltAlone(lin) ==
  IF lin = <<>> THEN Return(<<cssSelectorBuilder>>, 1)
  ELSE LET before == BuiltAlone(SubSeq(lin, 1, Len(lin) - 1))
           call == lin[Len(lin)]
       IN IF before.err # "none" THEN before
          ELSE Call(call.op, before.heap, before.ret, call.value)

\* The latest call was an append operation / one that returned.
LastAppend == last.op \in AppendOps
LastReturned == last.err = "none"

(* ------------------------------- claims -------------------------------- *)

\* C1: an append of category c on a fragment built by appends alone succeeds
\* exactly when rank(c) is at least the rank the lineage has reached and c is
\* no singleton the lineage has used; the fragment returned then has rank
\* rank(c), and its used singletons are the lineage's plus c if c is one.
C1_AppendSucceedsIff ==
  (LastAppend /\ AppendsOnly(lineage[last.this])) =>
    LET lin == lineage[last.this]
        used == UsedSingletons(lin)
    IN /\ LastReturned <=>
            (Rank(last.op) >= LineageRank(lin) /\ last.op \notin used)
       /\ ~LastReturned => last.err \in {errorMultipleTimes, errorOrder}
       /\ LastReturned =>
            /\ heap[last.ret].position = Num(Rank(last.op))
            /\ \A c \in Singletons :
                 checkErrors(heap, last.ret, NameOf(c))
                   <=> c \in used \cup ({last.op} \cap Singletons)

\* C1 witness: id succeeded on a fragment that already had a part.
C1_Witness ==
  /\ last.op = "id" /\ LastReturned
  /\ lineage[last.this] # <<>>
  /\ AppendsOnly(lineage[last.this])

\* C2: the text of a fragment built by appends alone is the concatenation, in
\* call order, of the formatted texts of its parts.
C2_TextIsConcatenation ==
  \A o \in 1..Len(heap) :
    AppendsOnly(lineage[o]) => stringify(heap, o) = ConcatParts(lineage[o])

\* C2 witness: the chain id, class, class has been built.
C2_Witness ==
  \E o \in 1..Len(heap) :
    /\ Len(lineage[o]) = 3
    /\ lineage[o][1].op = "id"
    /\ lineage[o][2].op = "class"
    /\ lineage[o][3].op = "class"
    /\ stringify(heap, o) = <<"#", "i", "d", ".", "i", "d", ".", "i", "d">>

\* C3: element, id or pseudoElement on a fragment whose lineage already has
\* that operation fails with the duplicate-part error, also when the call
\* breaks the order as well.
C3_DuplicateFirst ==
  (last.op \in Singletons /\ last.op \in UsedSingletons(lineage[last.this]))
    => last.err = errorMultipleTimes

\* C3 witness: a repeated element call on a fragment of higher rank failed
\* with the duplicate-part error.
C3_Witness ==
  /\ last.op = "element"
  /\ "element" \in UsedSingletons(lineage[last.this])
  /\ last.pre[last.this].position = Num(2)
  /\ last.err = errorMultipleTimes

\* C4: an append of category c on a fragment whose rank is above rank(c), c
\* being no singleton the lineage has used, fails with the order error.
C4_OrderError ==
  (/\ LastAppend
   /\ last.pre[last.this].position.t = "number"
   /\ last.pre[last.this].position.n > Rank(last.op)
   /\ last.op \notin UsedSingletons(lineage[last.this]))
    => last.err = errorOrder

\* C4 witness: class then element failed with the order error.
C4_Witness ==
  /\ last.op = "element"
  /\ Len(lineage[last.this]) = 1
  /\ lineage[last.this][1].op = "class"
  /\ last.err = errorOrder

\* C5: the text of the fragment combine returns is the text of left, a space,
\* the combinator, a space and the text of right, and nothing else.
C5_CombineText ==
  (last.op = "combine" /\ LastReturned) =>
    stringify(heap, last.ret)
      = stringify(last.pre, last.selector1) \o <<" ">> \o last.value \o <<" ">>
          \o stringify(last.pre, last.selector2)

\* C6: a call that returns leaves every object that existed before it as it
\* was and returns a new object; an append's result has the receiver's text
\* followed by the text of its own part.
C6_ReceiverUnchanged ==
  ((LastAppend \/ last.op = "combine") /\ LastReturned) =>
    /\ Len(heap) = Len(last.pre) + 1
    /\ last.ret = Len(heap)
    /\ \A o \in 1..Len(last.pre) : heap[o] = last.pre[o]
    /\ LastAppend =>
         stringify(heap, last.ret)
           = stringify(last.pre, last.this) \o PartText(last.op, last.value)

\* C6 witness: the receiver of the latest append is the base of two different
\* extensions.
C6_Witness ==
  /\ LastAppend /\ LastReturned
  /\ \E o \in 1..Len(heap) :
       /\ o # last.ret
       /\ parent[o] = last.this
       /\ heap[o] # heap[last.ret]

\* C7: an append that fails leaves every object, the receiver included, as it
\* was before the call.
C7_FailureChangesNothing ==
  (LastAppend /\ ~LastReturned) => heap = last.pre

\* C7 witness: an append failed on a fragment that has parts.
C7_Witness ==
  /\ LastAppend /\ ~LastReturned
  /\ stringify(heap, last.this) # <<>>

\* C8: the facade stays the empty fragment: no text, rank 0, no used
\* singleton.
C8_FacadeStaysEmpty ==
  /\ heap[1].result = <<>>
  /\ heap[1].position = Num(0)
  /\ heap[1].combinators = <<>>
  /\ \A c \in AppendOps : ~checkErrors(heap, 1, NameOf(c))

\* C8 witness: the facade has been the receiver of a combine and of another
\* call.
C8_Witness ==
  /\ last.op = "combine" /\ last.this = 1
  /\ \E o \in 1..Len(last.pre) : parent[o] = 1

\* C9: the position of every fragment is an integer in 0..6.
C9_PositionInRange ==
  \A o \in 1..Len(heap) :
    heap[o].position.t = "number" /\ heap[o].position.n \in 0..6

\* C10: along a lineage of appends the rank never decreases, and element, id
\* and pseudoElement each occur at most once.
C10_MonotoneAndOnce ==
  \A o \in 1..Len(heap) :
    AppendsOnly(lineage[o]) =>
      /\ \A k \in 1..(Len(lineage[o]) - 1) :
           Rank(lineage[o][k].op) <= Rank(lineage[o][k + 1].op)
      /\ \A c \in Singletons : Occurrences(lineage[o], c) <= 1
      /\ heap[o].position = Num(LineageRank(lineage[o]))
      /\ parent[o] # 0 =>
           /\ heap[parent[o]].position.t = "number"
           /\ heap[parent[o]].position.n <= heap[o].position.n

\* C10 witness: a chain that repeats a category and ends with pseudoElement.
C10_Witness ==
  \E o \in 1..Len(heap) :
    /\ Len(lineage[o]) = 3
    /\ AppendsOnly(lineage[o])
    /\ lineage[o][1].op = lineage[o][2].op
    /\ lineage[o][3].op = "pseudoElement"

\* C11: a step of a chain of appends made while other chains are being built
\* from the same base ends as the same step of that chain built alone: the
\* same error, or a fragment with the same text, rank and used parts.
C11_InterleavingIndependent ==
  (LastAppend /\ AppendsOnly(lineage[last.this])) =>
    LET alone == BuiltAlone(Append(lineage[last.this],
                                   [op |-> last.op, value |-> last.value]))
    IN /\ alone.err = last.err
       /\ LastReturned => alone.heap[alone.ret] = heap[last.ret]

\* C11 witness: two chains start at the facade, and the first is extended
\* after the second has started.
C11_Witness ==
  /\ LastAppend /\ LastReturned
  /\ last.this = 2 /\ parent[2] = 1
  /\ Len(last.pre) = 3 /\ parent[3] = 1
  /\ AppendsOnly(lineage[2]) /\ AppendsOnly(lineage[3])

\* C12: the object Rectangle(width, height) returns has width and height as
\* its fields, and its getArea() returns width * height.
C12_RectangleArea ==
  /\ rcall.op = "Rectangle" =>
       /\ rects[rcall.rect].width = rcall.width
       /\ rects[rcall.rect].height = rcall.height
       /\ getArea(rects[rcall.rect]) = rcall.width * rcall.height
  /\ rcall.op = "getArea" =>
       rcall.out = rects[rcall.rect].width * rects[rcall.rect].height

\* C12 witness: getArea returned the area of a rectangle whose sides differ
\* and whose area is not the sum of its sides.
C12_Witness ==
  /\ rcall.op = "getArea"
  /\ rects[rcall.rect].width = 1
  /\ rects[rcall.rect].height = 2
  /\ rcall.out = 2

\* C13: each of the six append operations succeeds on a fragment combine
\* returned, whatever the receiver and the arguments of combine were, and
\* returns the combined text followed by the text of its part.
C13_CombinedIsReset ==
  (last.op = "combine" /\ LastReturned) =>
    \A op \in AppendOps, v \in Values :
      LET r == Call(op, heap, last.ret, v)
      IN /\ r.err = "none"
         /\ stringify(r.heap, r.ret)
              = stringify(heap, last.ret) \o PartText(op, v)

\* C14: the fragment combine returns is the one it returns for the same
\* arguments when called on the facade: same text, rank and used parts.
C14_CombineIgnoresReceiver ==
  (last.op = "combine" /\ LastReturned) =>
    LET onFacade == combine(last.pre, 1, last.selector1, last.value,
                            last.selector2)
    IN heap[last.ret] = onFacade.heap[onFacade.ret]

\* C15: in every fragment the search of combinators for the name of an
\* operation finds it exactly when the operation is element, id or
\* pseudoElement and succeeded earlier in the fragment's lineage; it never
\* finds the name class, attr or pseudoClass pass, whatever the values were.
C15_RecordAgreesWithSet ==
  \A o \in 1..Len(heap) :
    \A c \in AppendOps :
      checkErrors(heap, o, NameOf(c)) <=> c \in UsedSingletons(lineage[o])

\* C15 witness: a fragment built by class('id') then pseudoElement('id'): its
\* text holds the word id, its record holds undefined and pseudoElement, and
\* only pseudoElement is found used.
C15_Witness ==
  \E o \in 1..Len(heap) :
    /\ Len(lineage[o]) = 2
    /\ lineage[o][1].op = "class" /\ lineage[o][1].value = NameId
    /\ lineage[o][2].op = "pseudoElement"
    /\ heap[o].combinators = UndefinedText \o NamePseudoElement
    /\ checkErrors(heap, o, NamePseudoElement)
    /\ ~checkErrors(heap, o, NameId)

====
